---- MODULE Spec2Model ----
(***************************************************************************)
(* A model of the XFC command line client, xfc_client/xfc.py: one          *)
(* invocation of main(), from the parsed argparse namespace to the end of  *)
(* the process, with the HTTP requests it issues, the responses it gets    *)
(* and everything it writes to standard output.                            *)
(*                                                                         *)
(* Numbers (byte counts, day counts) are arbitrary precision integers in   *)
(* the program.  They are kept here as a sign and a magnitude, the         *)
(* magnitude a little-endian sequence of base-1024 digits without a        *)
(* leading zero digit: <<>> is 0, <<0, 0, 0, 2>> is 2 * 1024^3.            *)
(*                                                                         *)
(* A string the program looks into character by character (the value of    *)
(* -l, the content of a response) is the sequence of its code points; the  *)
(* other strings are values the program only passes on or compares.        *)
(*                                                                         *)
(* The program runs under the interpreter that "#! /usr/bin/env python"    *)
(* finds: 2 stands for CPython 2.7, 3 for CPython 3.11.                    *)
(***************************************************************************)
EXTENDS Integers, Sequences, FiniteSets, TLC

VARIABLES
    env,            \* os.environ: USER, and the python that PATH leads to
    args,           \* the namespace parser.parse_args() returned
    pc,             \* where the process is: "main", a handler, "exit", "fault"
    locals,         \* main's local variables once it has set them
    called,         \* the do_* handlers main has called, in order
    requests,       \* the HTTP requests issued so far, in order
    responses,      \* the HTTP responses received so far, in order
    stdout,         \* what has been written to sys.stdout, line by line
    limited_data,   \* print_file_list's limited_data, the records it loops over
    exit_status,    \* the process' exit status once it has ended, else -1
    fault,          \* the exception that ended the process, else "none"
    server,         \* the server's user record and file records, where modelled
    server_start,   \* the value of server when the first invocation began
    served,         \* the server's answers to this invocation's requests, in order
    suspended       \* other invocations of the same user, not running right now

\* what lies beyond the one invocation
session == <<server, server_start, served, suspended>>

vars == <<env, args, pc, locals, called, requests, responses, stdout,
          limited_data, exit_status, fault, session>>

(***************************************************************************)
(* Bounds of the model.                                                    *)
(***************************************************************************)
\* the longest file list a response carries
MaxFiles == 3

\* the most base-1024 digits of a number handed to sizeof_fmt on its own
MaxDigits == 8

\* the most invocations of one user that run against the same server
MaxInvocations == 2

(***************************************************************************)
(* Arithmetic on base-1024 magnitudes.                                     *)
(***************************************************************************)
Base == 1024

Min(a, b) == IF a < b THEN a ELSE b

RECURSIVE Normalize(_)
Normalize(m) ==
    IF m = <<>> THEN <<>>
    ELSE IF m[Len(m)] = 0 THEN Normalize(SubSeq(m, 1, Len(m) - 1))
    ELSE m

Digit(m, i) == IF i <= Len(m) THEN m[i] ELSE 0

\* -1, 0, 1 as a < b, a = b, a > b, for normalized magnitudes
RECURSIVE CmpFrom(_, _, _)
CmpFrom(a, b, i) ==
    IF i = 0 THEN 0
    ELSE IF a[i] < b[i] THEN -1
    ELSE IF a[i] > b[i] THEN 1
    ELSE CmpFrom(a, b, i - 1)

CmpMag(a, b) ==
    IF Len(a) < Len(b) THEN -1
    ELSE IF Len(a) > Len(b) THEN 1
    ELSE CmpFrom(a, b, Len(a))

\* a - b for a >= b, digit by digit with a borrow
RECURSIVE SubFrom(_, _, _, _)
SubFrom(a, b, i, borrow) ==
    IF i > Len(a) THEN <<>>
    ELSE LET d == a[i] - Digit(b, i) - borrow
         IN IF d < 0 THEN <<d + Base>> \o SubFrom(a, b, i + 1, 1)
            ELSE <<d>> \o SubFrom(a, b, i + 1, 0)

SubMag(a, b) == Normalize(SubFrom(a, b, 1, 0))

\* a number of the program: a sign and a magnitude
Num(m) == [neg |-> FALSE, mag |-> m]
Zero == Num(<<>>)
One == Num(<<1>>)

\* Python's a < b, a >= b, a - b on integers
Compare(a, b) ==
    IF a.neg /\ ~b.neg THEN -1
    ELSE IF ~a.neg /\ b.neg THEN 1
    ELSE IF a.neg THEN CmpMag(b.mag, a.mag)
    ELSE CmpMag(a.mag, b.mag)

Less(a, b) == Compare(a, b) < 0
GreaterEq(a, b) == Compare(a, b) >= 0

Minus(a, b) ==
    \* only differences of non-negative numbers occur (do_quota)
    IF CmpMag(a.mag, b.mag) >= 0 THEN [neg |-> FALSE, mag |-> SubMag(a.mag, b.mag)]
    ELSE [neg |-> TRUE, mag |-> SubMag(b.mag, a.mag)]

\* 1024**k
RECURSIVE ZeroDigits(_)
ZeroDigits(k) == IF k = 0 THEN <<>> ELSE <<0>> \o ZeroDigits(k - 1)
Pow1024(k) == Num(ZeroDigits(k) \o <<1>>)

(***************************************************************************)
(* sizeof_fmt: the human friendly rendering of a number.                   *)
(***************************************************************************)
unit_list ==
    << <<"bytes", 0>>, <<"kB", 0>>, <<"MB", 1>>, <<"GB", 1>>,
       <<"TB", 1>>, <<"PB", 1>>, <<"EB", 1>> >>

\* 2**b
RECURSIVE Pow2(_)
Pow2(b) == IF b = 0 THEN 1 ELSE 2 * Pow2(b - 1)

\* the number of bits of one digit
RECURSIVE BitLen(_)
BitLen(d) == IF d = 0 THEN 0 ELSE 1 + BitLen(d \div 2)

\* v added to digit i of a magnitude, the carry rippling upwards
RECURSIVE AddAt(_, _, _)
AddAt(m, i, v) ==
    IF i > Len(m) THEN Append(m, v)
    ELSE IF m[i] + v < Base THEN [m EXCEPT ![i] = m[i] + v]
    ELSE AddAt([m EXCEPT ![i] = m[i] + v - Base], i + 1, 1)

\* the fraction part of mag / 1024**e against one half: -1, 0, 1
CmpHalf(low) ==
    IF low = <<>> THEN -1
    ELSE LET top == low[Len(low)]
         IN IF top > Base \div 2 THEN 1
            ELSE IF top < Base \div 2 THEN -1
            ELSE IF \E i \in 1..(Len(low) - 1) : low[i] # 0 THEN 1
            ELSE 0

\* the part of a magnitude below the bit of weight unit of digit a + 1,
\* against half of that bit: -1, 0, 1
DroppedVsHalf(m, a, unit) ==
    IF unit = 1 THEN CmpHalf(SubSeq(m, 1, a))
    ELSE LET r == m[a + 1] % unit
         IN IF 2 * r > unit THEN 1
            ELSE IF 2 * r < unit THEN -1
            ELSE IF \E i \in 1..a : m[i] # 0 THEN 1
            ELSE 0

\* a magnitude with everything below that bit cleared
Truncated(m, a, unit) ==
    ZeroDigits(a) \o <<m[a + 1] - (m[a + 1] % unit)>> \o SubSeq(m, a + 2, Len(m))

\* a magnitude rounded to a multiple of that bit, a tie to the even multiple
RoundAt(m, a, unit) ==
    LET c == DroppedVsHalf(m, a, unit)
    IN IF c > 0 \/ (c = 0 /\ (m[a + 1] \div unit) % 2 = 1)
       THEN AddAt(Truncated(m, a, unit), a + 1, unit)
       ELSE Truncated(m, a, unit)

\* the number of bits of a magnitude
BitLength(m) == IF m = <<>> THEN 0 ELSE 10 * (Len(m) - 1) + BitLen(m[Len(m)])

\* a magnitude with its drop lowest bits rounded off
RoundOff(m, drop) == RoundAt(m, drop \div 10, Pow2(drop % 10))

\* float(num), and the conversion log(num, 1024) makes of its argument: the
\* double nearest to the integer, which keeps 53 significant bits and breaks
\* a tie towards the even one.  Defined below 2**1024, where float() does not
\* raise OverflowError.
ToFloat(m) ==
    IF BitLength(m) <= 53 THEN m ELSE RoundOff(m, BitLength(m) - 53)

\* log(num, 1024) is the quotient of two doubles, log(float(num)) and
\* log(1024.0).  For the doubles just below 1024**L it comes out as exactly
\* L, which int() then does not round down.  Entry L gives, for a double of
\* L base-1024 digits, the least one where that happens: its four leading
\* digits are 1023, the entry holds the two digits below them (the fifth
\* digit from the top, then the sixth), and the rest are 0; 1024 in the entry
\* says that no double of that length rounds up.  The entries are those of
\* IEEE-754 doubles and the C library's log(), up to the largest double.
LogRoundsUpFrom ==
    << <<1024, 0>>, <<1024, 0>>, <<1024, 0>>, <<1024, 0>>, <<1021, 0>>,
       <<1018, 0>>, <<1023, 0>>, <<1020, 0>>, <<1017, 0>>, <<1018, 0>>,
       <<1023, 0>>, <<1011, 896>>, <<1016, 896>>, <<1021, 896>>, <<1010, 896>>,
       <<1015, 896>>, <<1004, 896>>, <<1009, 896>>, <<1022, 896>>, <<1011, 896>>,
       <<1000, 896>>, <<1021, 896>>, <<1010, 768>>, <<999, 768>>, <<1020, 768>>,
       <<1009, 768>>, <<998, 768>>, <<1019, 768>>, <<1008, 768>>, <<997, 768>>,
       <<1018, 768>>, <<1007, 768>>, <<996, 768>>, <<985, 640>>, <<1006, 640>>,
       <<995, 640>>, <<1000, 640>>, <<1021, 640>>, <<978, 640>>, <<999, 640>>,
       <<1020, 640>>, <<977, 640>>, <<998, 640>>, <<1019, 640>>, <<976, 640>>,
       <<997, 512>>, <<1018, 512>>, <<975, 512>>, <<996, 512>>, <<1017, 512>>,
       <<974, 512>>, <<995, 512>>, <<1016, 512>>, <<973, 512>>, <<994, 512>>,
       <<1015, 512>>, <<972, 384>>, <<993, 384>>, <<1014, 384>>, <<971, 384>>,
       <<992, 384>>, <<1013, 384>>, <<970, 384>>, <<991, 384>>, <<948, 384>>,
       <<969, 384>>, <<990, 384>>, <<947, 256>>, <<968, 256>>, <<989, 256>>,
       <<946, 256>>, <<967, 256>>, <<988, 256>>, <<977, 256>>, <<998, 256>>,
       <<1019, 256>>, <<912, 256>>, <<933, 256>>, <<954, 128>>, <<975, 128>>,
       <<996, 128>>, <<1017, 128>>, <<910, 128>>, <<931, 128>>, <<952, 128>>,
       <<973, 128>>, <<994, 128>>, <<1015, 128>>, <<908, 128>>, <<929, 128>>,
       <<950, 0>>, <<971, 0>>, <<992, 0>>, <<1013, 0>>, <<906, 0>>,
       <<927, 0>>, <<948, 0>>, <<969, 0>>, <<990, 0>>, <<1011, 0>>,
       <<904, 0>>, <<924, 896>> >>

\* the least double of L >= 5 digits whose logarithm rounds up
LogThreshold(L) ==
    LET x == LogRoundsUpFrom[L][1]
        y == LogRoundsUpFrom[L][2]
        top == <<Base - 1, Base - 1, Base - 1, Base - 1>>
    IN IF L = 5 THEN <<x>> \o top
       ELSE ZeroDigits(L - 6) \o <<y, x>> \o top

\* a double whose logarithm to the base 1024 comes out as the next integer
FloatLogRoundsUp(f) ==
    /\ Len(f) \in 5..Len(LogRoundsUpFrom)
    /\ CmpMag(f, LogThreshold(Len(f))) >= 0

\* int(log(f) / log(1024.0)) of a double f > 1: the index of its leading
\* base-1024 digit, one more where the logarithm rounds up
IntLogOfFloat(f) == IF FloatLogRoundsUp(f) THEN Len(f) ELSE Len(f) - 1

\* int(log(num, 1024)) is one more than the floor of the logarithm of num:
\* float(num) is a double that rounds up, or is the next power of 1024 itself
LogRoundsUp(num) == IntLogOfFloat(ToFloat(num.mag)) = Len(num.mag)

\* int(log(num, 1024)) for num > 1
IntLog1024(num) == IntLogOfFloat(ToFloat(num.mag))

\* the integer part of mag / 1024**e: the digits above the e lowest
RECURSIVE HighValue(_, _)
HighValue(m, e) ==
    IF Len(m) <= e THEN 0
    ELSE m[e + 1] + Base * HighValue(Tail(m), e)

\* ten times a fraction: the digit carried out and the fraction left
RECURSIVE Times10(_, _, _)
Times10(low, i, carry) ==
    IF i > Len(low) THEN [rem |-> <<>>, carry |-> carry]
    ELSE LET acc == low[i] * 10 + carry
             rest == Times10(low, i + 1, acc \div Base)
         IN [rem |-> <<acc % Base>> \o rest.rem, carry |-> rest.carry]

\* mag / 1024**exponent written with num_decimals decimals, correctly
\* rounded, an exact tie to the even digit
RoundFixed(m, exponent, num_decimals) ==
    LET low == SubSeq(m, 1, Min(exponent, Len(m)))
        high == HighValue(m, exponent)
    IN IF num_decimals = 0
       THEN LET c == CmpHalf(low)
                up == c > 0 \/ (c = 0 /\ high % 2 = 1)
            IN [whole |-> IF up THEN high + 1 ELSE high, tenth |-> 0]
       ELSE LET t == Times10(low, 1, 0)
                c == IF t.rem = <<>> THEN -1 ELSE CmpHalf(t.rem)
                up == c > 0 \/ (c = 0 /\ t.carry % 2 = 1)
                tenth == IF up THEN t.carry + 1 ELSE t.carry
            IN IF tenth = 10 THEN [whole |-> high + 1, tenth |-> 0]
               ELSE [whole |-> high, tenth |-> tenth]

\* '{:.<decimals>f}'.format(float(num) / 1024**exponent): float(num) rounds
\* the integer to a double, the division by a power of two is exact, and the
\* format rounds that double correctly
FormatFixed(m, exponent, num_decimals) ==
    RoundFixed(ToFloat(m), exponent, num_decimals)

RECURSIVE NumDigits(_)
NumDigits(n) == IF n < 10 THEN 1 ELSE 1 + NumDigits(n \div 10)

\* the rendering: pad spaces, the whole part, the decimals, a space, the unit
sizeof_fmt(num) ==
    IF Compare(num, One) > 0
    THEN LET exponent == Min(IntLog1024(num), Len(unit_list) - 1)
             unit == unit_list[exponent + 1][1]
             num_decimals == unit_list[exponent + 1][2]
             q == FormatFixed(num.mag, exponent, num_decimals)
             width == NumDigits(q.whole)
                      + (IF num_decimals > 0 THEN 1 + num_decimals ELSE 0)
         IN [pad |-> IF width < 5 THEN 5 - width ELSE 0,
             whole |-> q.whole, decimals |-> num_decimals,
             tenth |-> q.tenth, unit |-> unit]
    ELSE IF Compare(num, One) = 0
    THEN [pad |-> 0, whole |-> 1, decimals |-> 0, tenth |-> 0, unit |-> "byte"]
    ELSE [pad |-> 0, whole |-> 0, decimals |-> 0, tenth |-> 0, unit |-> "bytes"]

(***************************************************************************)
(* The command line.  main() starts from the namespace parse_args()        *)
(* returned: an invocation argparse itself ends (--version, --help, an     *)
(* unknown command) never reaches the code modelled here.  Flags the       *)
(* chosen command never reads are left at their defaults.                  *)
(***************************************************************************)
Users == {"alice", "bob"}

Commands == {"init", "path", "email", "info", "quota", "list", "notify",
             "schedule", "predict", "version"}

ListCommands == {"list", "schedule", "predict"}

Emails == {"", "a@b.org"}

\* values of -m: none, and a substring of the path "a.nc" only
Matches == {"", "a."}

\* the printable characters of ASCII from code point 32 to 95, and from 97
\* to 126
Printable ==
    <<" ", "!", "\"", "#", "$", "%", "&", "'", "(", ")", "*", "+", ",", "-",
      ".", "/", "0", "1", "2", "3", "4", "5", "6", "7", "8", "9", ":", ";",
      "<", "=", ">", "?", "@", "A", "B", "C", "D", "E", "F", "G", "H", "I",
      "J", "K", "L", "M", "N", "O", "P", "Q", "R", "S", "T", "U", "V", "W",
      "X", "Y", "Z", "[", "\\", "]", "^", "_">>

Letters ==
    <<"a", "b", "c", "d", "e", "f", "g", "h", "i", "j", "k", "l", "m", "n",
      "o", "p", "q", "r", "s", "t", "u", "v", "w", "x", "y", "z", "{", "|",
      "}", "~">>

\* ord(c)
Ord(c) ==
    IF \E i \in 1..Len(Printable) : Printable[i] = c
    THEN 31 + CHOOSE i \in 1..Len(Printable) : Printable[i] = c
    ELSE 96 + CHOOSE i \in 1..Len(Letters) : Letters[i] = c

\* the code points of a text given character by character
Text(chars) == [k \in 1..Len(chars) |-> Ord(chars[k])]

\* the interpreters
Pythons == {2, 3}

\* values of -l; <<>> is the default "".  The last three are a vertical tab
\* before "2", "1_0" and "- 1"
Limits ==
    { <<>>, Text(<<"0">>), Text(<<"1">>), Text(<<"2">>), Text(<<"-", "1">>),
      Text(<<"a", "b", "c">>), <<11>> \o Text(<<"2">>),
      Text(<<"1", "_", "0">>), Text(<<"-", " ", "1">>) }

ArgSet ==
    { a \in [cmd : Commands, email : Emails, f : BOOLEAN, m : Matches,
             i : BOOLEAN, t : BOOLEAN, s : BOOLEAN, l : Limits] :
        /\ (a.cmd \notin {"init", "email"} => a.email = "")
        /\ (a.cmd \notin ListCommands => ~a.f /\ ~a.i /\ a.m = "") }

\* int(s).  Python 3 takes a str: white space around the number is dropped,
\* then come an optional sign and decimal digits of any script, which single
\* underscores may separate, at most 4300 digits.  Python 2 takes the bytes
\* of the command line: white space of ASCII may also follow the sign, the
\* digits are those of ASCII, and nothing may separate them.

\* the code points of the digit zero in every script (Unicode 14.0)
DigitZeros ==
    {48, 1632, 1776, 1984, 2406, 2534, 2662, 2790, 2918, 3046, 3174, 3302,
     3430, 3558, 3664, 3792, 3872, 4160, 4240, 6112, 6160, 6470, 6608, 6784,
     6800, 6992, 7088, 7232, 7248, 42528, 43216, 43264, 43472, 43504, 43600,
     44016, 65296, 66720, 68912, 69734, 69872, 69942, 70096, 70384, 70736,
     70864, 71248, 71360, 71472, 71904, 72016, 72784, 73040, 73120, 92768,
     92864, 93008, 120782, 120792, 120802, 120812, 120822, 123200, 123632,
     125264, 130032}

IsDigit(c) ==
    IF env.python = 3 THEN \E z \in DigitZeros : c \in z..(z + 9)
    ELSE c \in Ord("0")..Ord("9")

DigitValue(c) == c - (CHOOSE z \in DigitZeros : c \in z..(z + 9))

\* the white space int() drops
Whitespace ==
    IF env.python = 3
    THEN (9..13) \cup {32, 133, 160, 5760} \cup (8192..8202)
         \cup {8232, 8233, 8239, 8287, 12288}
    ELSE (9..13) \cup {32}

LStrip(s) ==
    IF \A k \in 1..Len(s) : s[k] \in Whitespace THEN <<>>
    ELSE SubSeq(s, CHOOSE k \in 1..Len(s) :
                      /\ s[k] \notin Whitespace
                      /\ \A j \in 1..(k - 1) : s[j] \in Whitespace,
                Len(s))

RStrip(s) ==
    IF \A k \in 1..Len(s) : s[k] \in Whitespace THEN <<>>
    ELSE SubSeq(s, 1, CHOOSE k \in 1..Len(s) :
                         /\ s[k] \notin Whitespace
                         /\ \A j \in (k + 1)..Len(s) : s[j] \in Whitespace)

Strip(s) == RStrip(LStrip(s))

\* what follows the sign
Unsigned(s) ==
    IF s # <<>> /\ s[1] \in {Ord("+"), Ord("-")}
    THEN IF env.python = 3 THEN Tail(s) ELSE LStrip(Tail(s))
    ELSE s

\* sys.get_int_max_str_digits()
MaxStrDigits == 4300

\* int(s) raises ValueError unless this holds
int_ok(s) ==
    LET u == Unsigned(Strip(s))
    IN /\ u # <<>>
       /\ IsDigit(u[1])
       /\ IsDigit(u[Len(u)])
       /\ \A k \in 1..Len(u) :
            IsDigit(u[k]) \/ (env.python = 3 /\ u[k] = Ord("_"))
       /\ \A k \in 1..(Len(u) - 1) : IsDigit(u[k]) \/ IsDigit(u[k + 1])
       /\ env.python = 3 => Len(SelectSeq(u, IsDigit)) <= MaxStrDigits

RECURSIVE DecimalValue(_)
DecimalValue(ds) ==
    IF ds = <<>> THEN 0
    ELSE 10 * DecimalValue(SubSeq(ds, 1, Len(ds) - 1)) + DigitValue(ds[Len(ds)])

int(s) ==
    LET t == Strip(s)
        ds == SelectSeq(Unsigned(t), IsDigit)
    IN IF t[1] = Ord("-") THEN 0 - DecimalValue(ds) ELSE DecimalValue(ds)

\* a slip: the -t/-s check made for the listing commands only
sort_conflict_list_only(a) == a.t /\ a.s /\ a.cmd \in ListCommands

\* "if args.t and args.s"
sort_conflict(a) == a.t /\ a.s

\* "if args.l: list_limit = int(args.l) else: list_limit = 0", where int() succeeds
list_limit_of(a) == IF a.l # <<>> THEN int(a.l) ELSE 0

(***************************************************************************)
(* What the server sends.  A 200 response carries the shape the endpoint   *)
(* documents; every other response carries one of a few error bodies.      *)
(***************************************************************************)
T0 == [year |-> 2020, month |-> 1, day |-> 1, hour |-> 0, minute |-> 0]
T1 == [year |-> 2021, month |-> 11, day |-> 30, hour |-> 17, minute |-> 5]

FileRecords ==
    { [path |-> "a.nc", size |-> Num(<<0, 0, 0, 2>>), quota_used |-> Num(<<3>>),
       cache_disk |-> "/cache", first_seen |-> T0],
      [path |-> "b.nc", size |-> Num(<<0, 0, 1>>), quota_used |-> Num(<<3>>),
       cache_disk |-> "/cache", first_seen |-> T0],
      [path |-> "c.nc", size |-> Num(<<0, 0, 0, 2>>), quota_used |-> Zero,
       cache_disk |-> "/cache", first_seen |-> T1],
      [path |-> "d.nc", size |-> Num(<<1023>>), quota_used |-> Num(<<7>>),
       cache_disk |-> "/cache", first_seen |-> T1],
      [path |-> "e.nc", size |-> Num(<<0, 0, 0, 0, 1>>), quota_used |-> One,
       cache_disk |-> "/cache", first_seen |-> T0] }

\* the file lists of up to MaxFiles different files
FileLists ==
    UNION { { fl \in [1..n -> FileRecords] :
                \A j, k \in 1..n : j # k => fl[j] # fl[k] } : n \in 0..MaxFiles }

\* (allocated, used) pairs: room left, nothing left, over quota
QuotaPairs ==
    { <<Num(<<10>>), Num(<<3>>)>>, <<Num(<<0, 3>>), Num(<<0, 3>>)>>,
      <<Num(<<3>>), Num(<<0, 0, 1>>)>> }

UserRecords(user) ==
    { [name |-> user, email |-> e, notify |-> n, cache_path |-> "/cache/user",
       quota_size |-> tq[1], quota_used |-> tq[2],
       hard_limit_size |-> hq[1], total_used |-> hq[2]] :
        e \in {"a@b.org", "c@d.org"}, n \in BOOLEAN,
        tq \in QuotaPairs, hq \in QuotaPairs }

OtherDeletion ==
    [cache_disk |-> "/cache", time_delete |-> T1,
     files |-> <<CHOOSE d \in FileRecords : d.path = "e.nc">>]

\* the arrays the scheduled_deletions endpoint returns
ScheduledDeletions ==
    { <<>> }
    \cup { <<[cache_disk |-> "/cache", time_delete |-> T0, files |-> fl]>> :
             fl \in FileLists }
    \cup { <<[cache_disk |-> "/cache", time_delete |-> T0, files |-> fl],
             OtherDeletion>> : fl \in FileLists }

PredictedDeletions ==
    { [time_predict |-> T1, over_quota |-> Num(<<0, 5>>), files |-> fl] :
        fl \in FileLists }

\* a response: the status, the lines of .content (what lies between its
\* line feeds), and what .json() gives
OK(data) ==
    [status_code |-> 200, lines |-> <<>>, json_ok |-> TRUE, data |-> data]

\* error bodies: an HTML page with the exception, plain text,
\* {"error": "quota exceeded"}, {"detail": "failed"}, {"error": 5}, [],
\* ["error"], "abc" and 5; has_error is what the test for "error" in data
\* gives where it is defined
ErrorBodies ==
    { [lines |-> << Text(<<"<", "h", "t", "m", "l", ">">>),
                   Text(<<"<", "t", "h", ">", "E", "x", "c", "e", "p", "t",
                          "i", "o", "n", " ", "V", "a", "l", "u", "e", ":",
                          "<", "/", "t", "h", ">">>),
                   Text(<<"<", "t", "d", ">", "b", "o", "o", "m", "<", "/",
                          "t", "d", ">">>),
                   Text(<<"<", "/", "h", "t", "m", "l", ">">>) >>,
       json_ok |-> FALSE,
       data |-> [jtype |-> "none", has_error |-> FALSE, error_is_str |-> FALSE,
                 error |-> ""]],
      [lines |-> << Text(<<"B", "a", "d", " ", "G", "a", "t", "e", "w", "a",
                          "y">>) >>,
       json_ok |-> FALSE,
       data |-> [jtype |-> "none", has_error |-> FALSE, error_is_str |-> FALSE,
                 error |-> ""]],
      [lines |-> << Text(<<"{", "\"", "e", "r", "r", "o", "r", "\"", ":",
                          " ", "\"", "q", "u", "o", "t", "a", " ", "e", "x",
                          "c", "e", "e", "d", "e", "d", "\"", "}">>) >>,
       json_ok |-> TRUE,
       data |-> [jtype |-> "object", has_error |-> TRUE, error_is_str |-> TRUE,
                 error |-> "quota exceeded"]],
      [lines |-> << Text(<<"{", "\"", "d", "e", "t", "a", "i", "l", "\"",
                          ":", " ", "\"", "f", "a", "i", "l", "e", "d",
                          "\"", "}">>) >>,
       json_ok |-> TRUE,
       data |-> [jtype |-> "object", has_error |-> FALSE, error_is_str |-> FALSE,
                 error |-> ""]],
      [lines |-> << Text(<<"{", "\"", "e", "r", "r", "o", "r", "\"", ":",
                          " ", "5", "}">>) >>,
       json_ok |-> TRUE,
       data |-> [jtype |-> "object", has_error |-> TRUE, error_is_str |-> FALSE,
                 error |-> "5"]],
      [lines |-> << Text(<<"[", "]">>) >>,
       json_ok |-> TRUE,
       data |-> [jtype |-> "array", has_error |-> FALSE, error_is_str |-> FALSE,
                 error |-> ""]],
      [lines |-> << Text(<<"[", "\"", "e", "r", "r", "o", "r", "\"", "]">>) >>,
       json_ok |-> TRUE,
       data |-> [jtype |-> "array", has_error |-> TRUE, error_is_str |-> FALSE,
                 error |-> ""]],
      [lines |-> << Text(<<"\"", "a", "b", "c", "\"">>) >>,
       json_ok |-> TRUE,
       data |-> [jtype |-> "string", has_error |-> FALSE, error_is_str |-> FALSE,
                 error |-> ""]],
      [lines |-> << Text(<<"5">>) >>,
       json_ok |-> TRUE,
       data |-> [jtype |-> "number", has_error |-> FALSE, error_is_str |-> FALSE,
                 error |-> ""]] }

ErrorStatuses == {403, 500}

NotOK ==
    { [status_code |-> c, lines |-> e.lines, json_ok |-> e.json_ok,
       data |-> e.data] :
        c \in ErrorStatuses \cup {404}, e \in ErrorBodies }

UserResponses(user) == { OK(u) : u \in UserRecords(user) } \cup NotOK
(***************************************************************************)
(* Messages and rendering.  One element of stdout is one written line (or  *)
(* block of lines), named by its field "line".                             *)
(***************************************************************************)
user_not_initialized_message(user) == [line |-> "not_initialised", user |-> user]

\* "Exception" in il
Contains(text, word) ==
    \E k \in 0..(Len(text) - Len(word)) :
        SubSeq(text, k + 1, k + Len(word)) = word

\* print_response_error: the lines of response.content in which "Exception"
\* occurs.  Under Python 3 the content is a byte string, and bytes.split("\n")
\* raises TypeError
print_response_error(response) ==
    IF env.python = 3
    THEN [raised |-> TRUE, lines |-> <<>>]
    ELSE [raised |-> FALSE,
          lines |-> SelectSeq([k \in 1..Len(response.lines) |->
                                 [line |-> "exception_line",
                                  text |-> response.lines[k]]],
                              LAMBDA il :
                                  Contains(il.text,
                                           Text(<<"E", "x", "c", "e", "p", "t",
                                                  "i", "o", "n">>)))]

status_line(response) == [line |-> "error_status", status_code |-> response.status_code]

\* error_from_response: the lines it writes.  '"error" in data' looks for a
\* key of an object, an element of an array and a substring of a string, and
\* raises TypeError on a number, a boolean and null; data["error"] is defined
\* on an object only, and the "+" on a string only.  The bare "except" turns
\* every fault of the "try" block (no JSON, '"error" in 5', ["error"]["error"],
\* str + int) into the status line
error_from_response(response) ==
    IF ~response.json_ok THEN <<status_line(response)>>
    ELSE LET data == response.data
         IN IF data.jtype \in {"object", "array", "string"}
            THEN IF ~data.has_error THEN <<>>
                 ELSE IF data.jtype = "object" /\ data.error_is_str
                 THEN <<[line |-> "error", error |-> data.error]>>
                 ELSE <<status_line(response)>>
            ELSE <<status_line(response)>>

month_abbr ==
    <<"Jan", "Feb", "Mar", "Apr", "May", "Jun", "Jul", "Aug", "Sep", "Oct", "Nov", "Dec">>

\* "% 2i %s %d %02d:%02d" % (day, month_abbr[month], year, hour, minute)
format_date(date) ==
    [day |-> date.day, mon |-> month_abbr[date.month], year |-> date.year,
     hour |-> date.hour, minute |-> date.minute]

user_info(heading, data) ==
    [line |-> heading, name |-> data.name, email |-> data.email,
     quota_size |-> sizeof_fmt(data.quota_size),
     hard_limit_size |-> sizeof_fmt(data.hard_limit_size),
     cache_path |-> data.cache_path]

\* a slip: "<= 0" for "< 0", nothing remaining shown in red
quota_block_zero_red(user, data) ==
    LET used == data.quota_used
        allocated == data.quota_size
        total == data.total_used
        hard_limit == data.hard_limit_size
    IN [line |-> "quota", user |-> user,
        tq_used |-> sizeof_fmt(used), tq_allocated |-> sizeof_fmt(allocated),
        tq_colour |-> IF ~Less(Zero, Minus(allocated, used)) THEN "RED" ELSE "GREEN",
        tq_remaining |-> sizeof_fmt(Minus(allocated, used)),
        hq_used |-> sizeof_fmt(total), hq_allocated |-> sizeof_fmt(hard_limit),
        hq_colour |-> IF ~Less(Zero, Minus(hard_limit, total)) THEN "RED" ELSE "GREEN",
        hq_remaining |-> sizeof_fmt(Minus(hard_limit, total))]

\* the block do_quota writes for a 200 response
quota_block(user, data) ==
    LET used == data.quota_used
        allocated == data.quota_size
        total == data.total_used
        hard_limit == data.hard_limit_size
    IN [line |-> "quota", user |-> user,
        tq_used |-> sizeof_fmt(used), tq_allocated |-> sizeof_fmt(allocated),
        tq_colour |-> IF Less(Minus(allocated, used), Zero) THEN "RED" ELSE "GREEN",
        tq_remaining |-> sizeof_fmt(Minus(allocated, used)),
        hq_used |-> sizeof_fmt(total), hq_allocated |-> sizeof_fmt(hard_limit),
        hq_colour |-> IF Less(Minus(hard_limit, total), Zero) THEN "RED" ELSE "GREEN",
        hq_remaining |-> sizeof_fmt(Minus(hard_limit, total))]

(***************************************************************************)
(* print_file_list.                                                        *)
(***************************************************************************)
\* sorted(..., reverse=True) is stable: x goes behind every record whose key
\* is at least its own
RECURSIVE InsertDescending(_, _, _)
InsertDescending(r, x, key) ==
    IF r = <<>> THEN <<x>>
    ELSE IF Less(r[1][key], x[key]) THEN <<x>> \o r
    ELSE <<r[1]>> \o InsertDescending(Tail(r), x, key)

\* a slip: sorted(...)[::-1] in place of reverse=True, which turns ties around
RECURSIVE InsertBeforeEqual(_, _, _)
InsertBeforeEqual(r, x, key) ==
    IF r = <<>> THEN <<x>>
    ELSE IF ~Less(x[key], r[1][key]) THEN <<x>> \o r
    ELSE <<r[1]>> \o InsertBeforeEqual(Tail(r), x, key)

RECURSIVE sorted_reverse_ties_reversed(_, _)
sorted_reverse_ties_reversed(data, key) ==
    IF data = <<>> THEN <<>>
    ELSE InsertBeforeEqual(sorted_reverse_ties_reversed(SubSeq(data, 1, Len(data) - 1), key),
                           data[Len(data)], key)

RECURSIVE sorted_reverse(_, _)
sorted_reverse(data, key) ==
    IF data = <<>> THEN <<>>
    ELSE InsertDescending(sorted_reverse(SubSeq(data, 1, Len(data) - 1), key),
                          data[Len(data)], key)

\* a slip: the -s branch sorting by the key of the -t branch
sorted_data_hq_by_quota(data, sort_tq, sort_hq) ==
    IF sort_tq THEN sorted_reverse(data, "quota_used")
    ELSE IF sort_hq THEN sorted_reverse(data, "quota_used")
    ELSE data

\* a slip: the two branches in the other order
sorted_data_hq_first(data, sort_tq, sort_hq) ==
    IF sort_hq THEN sorted_reverse(data, "size")
    ELSE IF sort_tq THEN sorted_reverse(data, "quota_used")
    ELSE data

sorted_data(data, sort_tq, sort_hq) ==
    IF sort_tq THEN sorted_reverse(data, "quota_used")
    ELSE IF sort_hq THEN sorted_reverse(data, "size")
    ELSE data

\* sorted_data[:list_limit] when list_limit > 0
limit_data(sorted, list_limit) ==
    IF list_limit > 0 THEN SubSeq(sorted, 1, Min(list_limit, Len(sorted)))
    ELSE sorted

\* a slip: the lower ends of the colour ranges left out (> for >=)
size_colour_above_only(d) ==
    IF Less(Pow1024(2), d.size) /\ Less(d.size, Pow1024(3)) THEN "GREEN"
    ELSE IF Less(Pow1024(3), d.size) /\ Less(d.size, Pow1024(4)) THEN "YELLOW"
    ELSE IF Less(Pow1024(4), d.size) THEN "RED"
    ELSE ""

size_colour(d) ==
    IF GreaterEq(d.size, Pow1024(2)) /\ Less(d.size, Pow1024(3)) THEN "GREEN"
    ELSE IF GreaterEq(d.size, Pow1024(3)) /\ Less(d.size, Pow1024(4)) THEN "YELLOW"
    ELSE IF GreaterEq(d.size, Pow1024(4)) THEN "RED"
    ELSE ""

file_path(d, full_path) ==
    IF full_path THEN <<d.cache_disk, "/", d.path>> ELSE <<d.path>>

file_line(d, full_path, info) ==
    IF info
    THEN [line |-> "file", info |-> TRUE, colour |-> size_colour(d),
          size |-> sizeof_fmt(d.size), date |-> format_date(d.first_seen),
          tq |-> sizeof_fmt(d.quota_used), path |-> file_path(d, full_path)]
    ELSE [line |-> "file", info |-> FALSE, path |-> file_path(d, full_path)]

\* the records looped over and the lines written for them
print_file_list(data, full_path, info, sort_tq, sort_hq, list_limit) ==
    LET limited == limit_data(sorted_data(data, sort_tq, sort_hq), list_limit)
    IN [limited_data |-> limited,
        lines |-> [k \in 1..Len(limited) |-> file_line(limited[k], full_path, info)]]

(***************************************************************************)
(* The process.                                                            *)
(***************************************************************************)
XFC_API_URL == "https://xfc.ceda.ac.uk/xfc_control/api/v1/"

\* requests.get(url) sends no body
NoData == [none |-> TRUE]

\* one invocation on its own: no server is modelled, a response is whatever
\* a server may send
NoServer == [none |-> TRUE]

Standalone ==
    /\ server = NoServer
    /\ server_start = NoServer
    /\ served = <<>>
    /\ suspended = <<>>

\* main's frame before its first assignment: no local is bound
NoLocals == [name \in {} |-> FALSE]

\* the locals bound up to the -t/-s check (lines 375-395)
flag_locals(a) ==
    [full_path |-> a.f, file_match |-> a.m, info |-> a.i, email |-> a.email]

\* the locals bound up to int(args.l) (lines 401-409)
sort_locals(a) ==
    [full_path |-> a.f, file_match |-> a.m, info |-> a.i, email |-> a.email,
     sort_tq |-> a.t, sort_hq |-> a.s]

\* the locals bound when main reaches the switch on the command
main_locals(a) ==
    [full_path |-> a.f, file_match |-> a.m, info |-> a.i, email |-> a.email,
     sort_tq |-> a.t, sort_hq |-> a.s, list_limit |-> list_limit_of(a)]

Init ==
    /\ env \in [USER : Users, python : Pythons]
    /\ args \in ArgSet
    /\ pc = "main"
    /\ locals = NoLocals
    /\ called = <<>>
    /\ requests = <<>>
    /\ responses = <<>>
    /\ stdout = <<>>
    /\ limited_data = <<>>
    /\ exit_status = -1
    /\ fault = "none"
    /\ Standalone

Send(method, url, data) ==
    requests' = Append(requests, [method |-> method, url |-> url, data |-> data])

Receive(response) == responses' = Append(responses, response)

Write(lines) == stdout' = stdout \o lines

\* the process ends: main returns, or sys.exit() without an argument
Exit == pc' = "exit" /\ exit_status' = 0 /\ UNCHANGED fault

\* an exception nothing catches ends the process with a traceback
Raise(exc) == pc' = "fault" /\ exit_status' = 1 /\ fault' = exc

Handled == Commands \ {"version"}

\* main(): the locals, the -t/-s check, int(args.l) and the switch on the
\* command, up to the call of the handler
main ==
    /\ pc = "main"
    /\ UNCHANGED <<session, env, args, requests, responses, limited_data>>
    /\ IF sort_conflict(args)
       THEN /\ locals' = flag_locals(args)
            /\ Write(<<[line |-> "usage_error"]>>)
            /\ Exit
            /\ UNCHANGED called
       ELSE IF args.l # <<>> /\ ~int_ok(args.l)
       THEN /\ locals' = sort_locals(args)
            /\ Raise("ValueError")
            /\ UNCHANGED <<called, stdout>>
       ELSE /\ locals' = main_locals(args)
            /\ UNCHANGED stdout
            /\ IF args.cmd \in Handled
               THEN /\ pc' = args.cmd
                    /\ called' = Append(called, args.cmd)
                    /\ UNCHANGED <<exit_status, fault>>
               ELSE Exit /\ UNCHANGED called

\* the frame of a handler's first half: the request is out, the handler waits
Await(wait) ==
    /\ pc' = wait
    /\ UNCHANGED <<session, env, args, locals, called, responses, stdout, limited_data,
                   exit_status, fault>>

user_url(user) == <<XFC_API_URL, "user?name=", user>>

\* the 404 and other-status branches shared by the handlers
not_200(response) ==
    IF response.status_code = 404
    THEN <<user_not_initialized_message(env.USER)>>
    ELSE error_from_response(response)

\* ---- init
\* a slip: the email key sent whether or not an address was given
init_data_always_email(user, email) == [name |-> user, email |-> email]

init_data(user, email) ==
    IF email # "" THEN [name |-> user, email |-> email] ELSE [name |-> user]

do_init ==
    /\ pc = "init"
    /\ Send("POST", <<XFC_API_URL, "user">>, init_data(env.USER, locals.email))
    /\ Await("init_response")

do_init_response ==
    /\ pc = "init_response"
    /\ \E response \in UserResponses(env.USER) :
         /\ Receive(response)
         /\ IF response.status_code = 200
            THEN Write(<<user_info("init_success", response.data)>>)
            ELSE Write(<<[line |-> "init_failed", user |-> env.USER]>>
                       \o error_from_response(response))
    /\ Exit
    /\ UNCHANGED <<session, env, args, locals, called, requests, limited_data>>

\* ---- email
\* a slip: the address written whether or not one was given
do_email_always_put ==
    /\ pc = "email"
    /\ Send("PUT", user_url(env.USER), [name |-> env.USER, email |-> locals.email])
    /\ Await("email_response")

do_email ==
    /\ pc = "email"
    /\ IF locals.email # ""
       THEN Send("PUT", user_url(env.USER), [name |-> env.USER, email |-> locals.email])
       ELSE Send("GET", user_url(env.USER), [name |-> env.USER])
    /\ Await("email_response")

do_email_response ==
    /\ pc = "email_response"
    /\ \E response \in UserResponses(env.USER) :
         /\ Receive(response)
         /\ IF response.status_code = 200
            THEN IF locals.email # ""
                 THEN Write(<<[line |-> "email_updated", email |-> response.data.email]>>)
                 ELSE Write(<<[line |-> "email", email |-> response.data.email]>>)
            ELSE Write(not_200(response))
    /\ Exit
    /\ UNCHANGED <<session, env, args, locals, called, requests, limited_data>>

\* ---- info
do_info ==
    /\ pc = "info"
    /\ Send("GET", user_url(env.USER), NoData)
    /\ Await("info_response")

do_info_response ==
    /\ pc = "info_response"
    /\ \E response \in UserResponses(env.USER) :
         /\ Receive(response)
         /\ IF response.status_code = 200
            THEN Write(<<user_info("info", response.data)>>)
            ELSE Write(not_200(response))
    /\ Exit
    /\ UNCHANGED <<session, env, args, locals, called, requests, limited_data>>

\* ---- path
do_path ==
    /\ pc = "path"
    /\ Send("GET", user_url(env.USER), NoData)
    /\ Await("path_response")

do_path_response ==
    /\ pc = "path_response"
    /\ \E response \in UserResponses(env.USER) :
         /\ Receive(response)
         /\ IF response.status_code = 200
            THEN Write(<<[line |-> "path", cache_path |-> response.data.cache_path]>>)
            ELSE Write(not_200(response))
    /\ Exit
    /\ UNCHANGED <<session, env, args, locals, called, requests, limited_data>>

\* ---- quota
do_quota ==
    /\ pc = "quota"
    /\ Send("GET", user_url(env.USER), NoData)
    /\ Await("quota_response")

do_quota_response ==
    /\ pc = "quota_response"
    /\ \E response \in UserResponses(env.USER) :
         /\ Receive(response)
         /\ IF response.status_code = 200
            THEN Write(<<quota_block(env.USER, response.data)>>)
            ELSE Write(not_200(response))
    /\ Exit
    /\ UNCHANGED <<session, env, args, locals, called, requests, limited_data>>

\* the call of print_file_list from a handler, with main's flags
PrintFiles(header, data) ==
    LET out == print_file_list(data, locals.full_path, locals.info,
                               locals.sort_tq, locals.sort_hq, locals.list_limit)
    IN /\ called' = Append(called, "print_file_list")
       /\ limited_data' = out.limited_data
       /\ Write(header \o out.lines)

\* ---- list
list_url(user, file_match) ==
    IF file_match # "" THEN <<XFC_API_URL, "file?name=", user, "&match=", file_match>>
    ELSE <<XFC_API_URL, "file?name=", user>>

do_list ==
    /\ pc = "list"
    /\ Send("GET", list_url(env.USER, locals.file_match), NoData)
    /\ Await("list_response")

\* the rest of do_list once the response is there
list_response(response) ==
    /\ Receive(response)
    /\ IF response.status_code = 200
       THEN PrintFiles(<<>>, response.data)
       ELSE Write(not_200(response)) /\ UNCHANGED <<called, limited_data>>
    /\ Exit

do_list_response ==
    /\ pc = "list_response"
    /\ \/ \E data \in FileLists : list_response(OK(data))
       \/ \E response \in NotOK : list_response(response)
    /\ UNCHANGED <<session, env, args, locals, requests>>

\* ---- notify
notify_put_wanted(response) == response.status_code = 200

notify_put_data(user, notify) == [name |-> user, notify |-> ~notify]

\* a slip: the state printed is the one the PUT response carries
notify_state_read_back(put_data, response) ==
    IF response.data.notify THEN "on" ELSE "off"

\* ["off", "on"][put_data["notify"]]
notify_state(put_data, response) == IF put_data.notify THEN "on" ELSE "off"

do_notify ==
    /\ pc = "notify"
    /\ Send("GET", user_url(env.USER), NoData)
    /\ Await("notify_response")

\* the GET has returned: the PUT goes out, or the 404 / error branch ends it
do_notify_response ==
    /\ pc = "notify_response"
    /\ \E response \in UserResponses(env.USER) :
         /\ Receive(response)
         /\ IF notify_put_wanted(response)
            THEN /\ Send("PUT", user_url(env.USER),
                         notify_put_data(env.USER, response.data.notify))
                 /\ pc' = "notify_put_response"
                 /\ UNCHANGED <<stdout, exit_status, fault>>
            ELSE /\ Write(not_200(response))
                 /\ Exit
                 /\ UNCHANGED requests
    /\ UNCHANGED <<session, env, args, locals, called, limited_data>>

\* a slip: a PUT that failed is sent again
do_notify_put_response_retry ==
    /\ pc = "notify_put_response"
    /\ \E response \in UserResponses(env.USER) :
         /\ Receive(response)
         /\ IF response.status_code = 200
            THEN /\ Write(<<[line |-> "notify_updated",
                             state |-> notify_state(requests[Len(requests)].data,
                                                    response)]>>)
                 /\ Exit
                 /\ UNCHANGED requests
            ELSE IF Len(requests) < 3
            THEN /\ Send("PUT", user_url(env.USER), requests[Len(requests)].data)
                 /\ UNCHANGED <<pc, stdout, exit_status, fault>>
            ELSE /\ Exit
                 /\ UNCHANGED <<stdout, requests>>
    /\ UNCHANGED <<session, env, args, locals, called, limited_data>>

\* a slip the other way: the PUT given the 404 / error branches of the GET
do_notify_put_response_reported ==
    /\ pc = "notify_put_response"
    /\ \E response \in UserResponses(env.USER) :
         /\ Receive(response)
         /\ IF response.status_code = 200
            THEN Write(<<[line |-> "notify_updated",
                          state |-> notify_state(requests[Len(requests)].data,
                                                 response)]>>)
            ELSE Write(not_200(response))
    /\ Exit
    /\ UNCHANGED <<session, env, args, locals, called, requests, limited_data>>

\* the PUT has returned: only a 200 is reported
do_notify_put_response ==
    /\ pc = "notify_put_response"
    /\ \E response \in UserResponses(env.USER) :
         /\ Receive(response)
         /\ IF response.status_code = 200
            THEN Write(<<[line |-> "notify_updated",
                          state |-> notify_state(requests[Len(requests)].data,
                                                 response)]>>)
            ELSE UNCHANGED stdout
    /\ Exit
    /\ UNCHANGED <<session, env, args, locals, called, requests, limited_data>>

\* ---- schedule
do_schedule ==
    /\ pc = "schedule"
    /\ Send("GET", <<XFC_API_URL, "scheduled_deletions?name=", env.USER>>, NoData)
    /\ Await("schedule_response")

\* the rest of do_schedule once the response is there
schedule_response(response) ==
    /\ Receive(response)
    /\ IF response.status_code = 200
       THEN IF response.data = <<>>
            THEN \* response.json()[0] of an empty array
                 /\ Raise("IndexError")
                 /\ UNCHANGED <<stdout, called, limited_data>>
            ELSE LET data == response.data[1]
                 IN IF Len(data.files) = 0
                    THEN /\ Write(<<[line |-> "no_files_scheduled"]>>)
                         /\ Exit
                         /\ UNCHANGED <<called, limited_data>>
                    ELSE /\ PrintFiles(<<[line |-> "scheduled_header",
                                          date |-> format_date(data.time_delete)]>>,
                                       data.files)
                         /\ Exit
       ELSE /\ Write(not_200(response))
            /\ Exit
            /\ UNCHANGED <<called, limited_data>>

do_schedule_response ==
    /\ pc = "schedule_response"
    /\ \/ \E data \in ScheduledDeletions : schedule_response(OK(data))
       \/ \E response \in NotOK : schedule_response(response)
    /\ UNCHANGED <<session, env, args, locals, requests>>

\* ---- predict
do_predict ==
    /\ pc = "predict"
    /\ Send("GET", <<XFC_API_URL, "predict_deletions?name=", env.USER>>, NoData)
    /\ Await("predict_response")

\* the rest of do_predict once the response is there
predict_response(response) ==
    /\ Receive(response)
    /\ IF response.status_code = 200
       THEN LET data == response.data
            IN IF Len(data.files) = 0
               THEN /\ Write(<<[line |-> "never_exceeded"]>>)
                    /\ Exit
                    /\ UNCHANGED <<called, limited_data>>
               ELSE /\ PrintFiles(<<[line |-> "predict_header",
                                     date |-> format_date(data.time_predict),
                                     over_quota |-> sizeof_fmt(data.over_quota)],
                                    [line |-> "files_predicted"]>>,
                                  data.files)
                    /\ Exit
       ELSE IF response.status_code = 404
       THEN /\ Write(<<user_not_initialized_message(env.USER)>>)
            /\ Exit
            /\ UNCHANGED <<called, limited_data>>
       ELSE LET summary == print_response_error(response)
            IN IF summary.raised
               THEN /\ Raise("TypeError")
                    /\ UNCHANGED <<stdout, called, limited_data>>
               ELSE /\ Write(summary.lines \o error_from_response(response))
                    /\ Exit
                    /\ UNCHANGED <<called, limited_data>>

do_predict_response ==
    /\ pc = "predict_response"
    /\ \/ \E data \in PredictedDeletions : predict_response(OK(data))
       \/ \E response \in NotOK : predict_response(response)
    /\ UNCHANGED <<session, env, args, locals, requests>>

WaitingPcs ==
    {"init_response", "email_response", "info_response", "path_response",
     "quota_response", "list_response", "notify_response", "notify_put_response",
     "schedule_response", "predict_response"}

\* ---- the network: requests.get/post/put raises when no response arrives,
\* and no handler catches it
transport_failure ==
    /\ pc \in WaitingPcs
    /\ Raise("ConnectionError")
    /\ UNCHANGED <<session, env, args, locals, called, requests, responses, stdout, limited_data>>

Next ==
    \/ main
    \/ do_init \/ do_init_response
    \/ do_email \/ do_email_response
    \/ do_info \/ do_info_response
    \/ do_path \/ do_path_response
    \/ do_quota \/ do_quota_response
    \/ do_list \/ do_list_response
    \/ do_notify \/ do_notify_response \/ do_notify_put_response
    \/ do_schedule \/ do_schedule_response
    \/ do_predict \/ do_predict_response
    \/ transport_failure

Spec == Init /\ [][Next]_vars

(***************************************************************************)
(* print_file_list on its own: the function applied to any flags, also the *)
(* ones main never passes together (sort_tq with sort_hq), with list_limit *)
(* taken from a -l value as main takes it.                                 *)
(***************************************************************************)
InitPrintFileList ==
    /\ env \in [USER : Users, python : Pythons]
    /\ args \in { a \in [cmd : {"list"}, email : {""}, f : BOOLEAN, m : {""},
                         i : BOOLEAN, t : BOOLEAN, s : BOOLEAN, l : Limits] :
                    a.l = <<>> \/ int_ok(a.l) }
    /\ pc = "print_file_list"
    /\ locals = NoLocals
    /\ called = <<>>
    /\ requests = <<>>
    /\ responses = <<>>
    /\ stdout = <<>>
    /\ limited_data = <<>>
    /\ exit_status = -1
    /\ fault = "none"
    /\ Standalone

call_print_file_list ==
    /\ pc = "print_file_list"
    /\ \E data \in FileLists :
         /\ locals' = main_locals(args)
         /\ Receive(OK(data))
         /\ LET out == print_file_list(data, args.f, args.i, args.t, args.s,
                                       list_limit_of(args))
            IN /\ called' = Append(called, "print_file_list")
               /\ limited_data' = out.limited_data
               /\ Write(out.lines)
    /\ Exit
    /\ UNCHANGED <<session, env, args, requests>>

SpecPrintFileList == InitPrintFileList /\ [][call_print_file_list]_vars

(***************************************************************************)
(* sizeof_fmt on its own: the function applied to a number, its result     *)
(* written to stdout.  The numbers are 0, 1, the powers of 1024, their     *)
(* neighbours and multiples up to MaxDigits digits, numbers around the     *)
(* places where the logarithm rounds up, and one above 2**53 whose double  *)
(* shows another decimal than the number itself.                           *)
(***************************************************************************)
SizeDigits == {0, 1, 512, 1023}

Sizes ==
    { Num(m) : m \in { d \in UNION { [1..n -> SizeDigits] : n \in 0..MaxDigits } :
                         d = <<>> \/ d[Len(d)] # 0 } }
    \cup { Num(<<1020, 1023, 1023, 1023, 1023>>),
           Num(<<1021, 1023, 1023, 1023, 1023>>),
           Num(<<959, 1017, 1023, 1023, 1023, 1023>>),
           Num(<<960, 1017, 1023, 1023, 1023, 1023>>),
           Num(<<0, 512, 1022, 1023, 1023, 1023, 1023>>),
           Num(<<1, 0, 0, 0, 256, 9>>) }

InitSizeofFmt ==
    /\ env = [USER |-> "alice", python |-> 3]
    /\ args = [cmd |-> "version", email |-> "", f |-> FALSE, m |-> "", i |-> FALSE,
               t |-> FALSE, s |-> FALSE, l |-> <<>>]
    /\ pc = "sizeof_fmt"
    /\ locals \in { [num |-> n] : n \in Sizes }
    /\ called = <<>>
    /\ requests = <<>>
    /\ responses = <<>>
    /\ stdout = <<>>
    /\ limited_data = <<>>
    /\ exit_status = -1
    /\ fault = "none"
    /\ Standalone

call_sizeof_fmt ==
    /\ pc = "sizeof_fmt"
    /\ called' = Append(called, "sizeof_fmt")
    /\ Write(<<[line |-> "size", text |-> sizeof_fmt(locals.num)]>>)
    /\ Exit
    /\ UNCHANGED <<session, env, args, locals, requests, responses, limited_data>>

SpecSizeofFmt == InitSizeofFmt /\ [][call_sizeof_fmt]_vars


(***************************************************************************)
(* Several invocations of the same user against one server.  Each          *)
(* invocation is a process of its own running main(); the processes share  *)
(* nothing but the server, and the operating system runs them in any       *)
(* interleaving: the variables of the invocation hold the one that runs,   *)
(* suspended holds the others.  The server answers a GET from its records, *)
(* stores what a PUT or POST sends, or fails without a change.             *)
(***************************************************************************)
SessionUser == "alice"

FileOf(path) == CHOOSE d \in FileRecords : d.path = path

\* what the server holds when the first invocation begins: the record of the
\* user as created, notifications off; a notify of the session turns them on
ServerStates ==
    { [user |-> u, files |-> <<FileOf("a.nc"), FileOf("b.nc")>>] :
        u \in { r \in UserRecords(SessionUser) :
                  /\ r.email = "c@d.org"
                  /\ ~r.notify
                  /\ r.quota_size = Num(<<10>>)
                  /\ r.hard_limit_size = Num(<<10>>) } }

\* the command lines of a session: every command, -f -m -i -t -s -l not given
SessionArgs ==
    { a \in ArgSet : /\ a.cmd \in Handled
                     /\ ~a.f /\ ~a.i /\ ~a.t /\ ~a.s
                     /\ a.m = "" /\ a.l = <<>> }

\* an invocation that has not taken a step
Fresh(a) ==
    [env |-> env, args |-> a, pc |-> "main", locals |-> NoLocals,
     called |-> <<>>, requests |-> <<>>, responses |-> <<>>, stdout |-> <<>>,
     limited_data |-> <<>>, exit_status |-> -1, fault |-> "none", served |-> <<>>]

\* the invocation that runs
Running ==
    [env |-> env, args |-> args, pc |-> pc, locals |-> locals, called |-> called,
     requests |-> requests, responses |-> responses, stdout |-> stdout,
     limited_data |-> limited_data, exit_status |-> exit_status, fault |-> fault,
     served |-> served]

InitSessions ==
    /\ server \in ServerStates
    /\ server_start = server
    /\ env \in [USER : {SessionUser}, python : Pythons]
    /\ args \in SessionArgs
    /\ pc = "main"
    /\ locals = NoLocals
    /\ called = <<>>
    /\ requests = <<>>
    /\ responses = <<>>
    /\ stdout = <<>>
    /\ limited_data = <<>>
    /\ exit_status = -1
    /\ fault = "none"
    /\ served = <<>>
    /\ suspended \in UNION { [1..n -> { Fresh(a) : a \in SessionArgs }] :
                               n \in 0..(MaxInvocations - 1) }

\* another invocation that has not ended runs.  The steps of an invocation
\* between two answers of the server touch nothing the invocations share, so
\* the turn is handed over only where the order of the server's answers is
\* decided: when the server has answered the running invocation, or once it
\* has ended
switch ==
    /\ pc \in {"exit", "fault"} \/ (pc \in WaitingPcs /\ Len(served) > Len(responses))
    /\ \E k \in 1..Len(suspended) :
         /\ suspended[k].pc \notin {"exit", "fault"}
         /\ env' = suspended[k].env
         /\ args' = suspended[k].args
         /\ pc' = suspended[k].pc
         /\ locals' = suspended[k].locals
         /\ called' = suspended[k].called
         /\ requests' = suspended[k].requests
         /\ responses' = suspended[k].responses
         /\ stdout' = suspended[k].stdout
         /\ limited_data' = suspended[k].limited_data
         /\ exit_status' = suspended[k].exit_status
         /\ fault' = suspended[k].fault
         /\ served' = suspended[k].served
         /\ suspended' = [suspended EXCEPT ![k] = Running]
    /\ UNCHANGED <<server, server_start>>

\* the server's answer to a request and its records afterwards: a GET reads,
\* a PUT or POST of the user stores the fields it carries
ServerHandles(srv, request) ==
    IF request.method = "GET"
    THEN IF request.url = user_url(srv.user.name)
         THEN [response |-> OK(srv.user), server |-> srv]
         ELSE IF request.url = <<XFC_API_URL, "scheduled_deletions?name=", srv.user.name>>
         THEN [response |-> OK(<<[cache_disk |-> "/cache", time_delete |-> T0,
                                  files |-> srv.files]>>),
               server |-> srv]
         ELSE IF request.url = <<XFC_API_URL, "predict_deletions?name=", srv.user.name>>
         THEN [response |-> OK([time_predict |-> T1, over_quota |-> Num(<<0, 5>>),
                                files |-> srv.files]),
               server |-> srv]
         ELSE [response |-> OK(srv.files), server |-> srv]
    ELSE LET data == request.data
             stored == [srv.user EXCEPT
                          !.email = IF "email" \in DOMAIN data THEN data.email ELSE @,
                          !.notify = IF "notify" \in DOMAIN data THEN data.notify ELSE @]
         IN [response |-> OK(stored), server |-> [srv EXCEPT !.user = stored]]

\* the answer of a server that fails
ServerFailure ==
    CHOOSE r \in NotOK : /\ r.status_code = 500
                         /\ r.json_ok /\ r.data.has_error /\ r.data.error_is_str

\* the running invocation has a request out that the server has not handled
Unanswered == pc \in WaitingPcs /\ Len(requests) = Len(served) + 1

serve ==
    /\ Unanswered
    /\ LET answer == ServerHandles(server, requests[Len(requests)])
       IN /\ served' = Append(served, answer.response)
          /\ server' = answer.server
    /\ UNCHANGED <<env, args, pc, locals, called, requests, responses, stdout,
                   limited_data, exit_status, fault, server_start, suspended>>

serve_failure ==
    /\ Unanswered
    /\ served' = Append(served, ServerFailure)
    /\ UNCHANGED <<env, args, pc, locals, called, requests, responses, stdout,
                   limited_data, exit_status, fault, server, server_start, suspended>>

\* the response a handler gets is the server's answer to its request
Answered == Len(served) > Len(responses)

GetsAnswer ==
    LET got == responses'[Len(responses')]
        sent == served[Len(responses) + 1]
    IN /\ got.status_code = sent.status_code
       /\ got.lines = sent.lines
       /\ got.json_ok = sent.json_ok
       /\ got.data = sent.data

init_answered == Answered /\ do_init_response /\ GetsAnswer

email_answered == Answered /\ do_email_response /\ GetsAnswer

info_answered == Answered /\ do_info_response /\ GetsAnswer

path_answered == Answered /\ do_path_response /\ GetsAnswer

quota_answered == Answered /\ do_quota_response /\ GetsAnswer

list_answered == Answered /\ do_list_response /\ GetsAnswer

notify_answered == Answered /\ do_notify_response /\ GetsAnswer

notify_put_answered == Answered /\ do_notify_put_response /\ GetsAnswer

schedule_answered == Answered /\ do_schedule_response /\ GetsAnswer

predict_answered == Answered /\ do_predict_response /\ GetsAnswer

NextSessions ==
    \/ main
    \/ do_init \/ init_answered
    \/ do_email \/ email_answered
    \/ do_info \/ info_answered
    \/ do_path \/ path_answered
    \/ do_quota \/ quota_answered
    \/ do_list \/ list_answered
    \/ do_notify \/ notify_answered \/ notify_put_answered
    \/ do_schedule \/ schedule_answered
    \/ do_predict \/ predict_answered
    \/ serve \/ serve_failure
    \/ switch

SpecSessions == InitSessions /\ [][NextSessions]_vars


(***************************************************************************)
(* Vocabulary of the properties.                                           *)
(***************************************************************************)
Ended == pc \in {"exit", "fault"}

UserScoped == {"email", "info", "path", "quota", "list", "notify", "schedule", "predict"}

SuccessLines ==
    {"init_success", "email_updated", "email", "info", "path", "quota", "file",
     "notify_updated", "no_files_scheduled", "scheduled_header", "never_exceeded",
     "predict_header", "files_predicted"}

ErrorLines == {"error", "error_status", "init_failed"}

Printed(kinds) == \E k \in 1..Len(stdout) : stdout[k].line \in kinds

\* print_file_list has run
PrintedFiles == \E k \in 1..Len(called) : called[k] = "print_file_list"

\* the list print_file_list was given
InputFiles ==
    IF args.cmd = "schedule" THEN responses[1].data[1].files
    ELSE IF args.cmd = "predict" THEN responses[1].data.files
    ELSE responses[1].data

Position(seq, x) == CHOOSE k \in 1..Len(seq) : seq[k] = x

Occurs(seq, x) == \E k \in 1..Len(seq) : seq[k] = x

FileLinesWritten == SelectSeq(stdout, LAMBDA w : w.line = "file")

\* the file lines written are the lines of limited_data, in its order
RendersLimitedData ==
    /\ Len(FileLinesWritten) = Len(limited_data)
    /\ \A k \in 1..Len(limited_data) :
         FileLinesWritten[k].path = file_path(limited_data[k], locals.full_path)

\* the records rendered are different records of the input
DrawnFromInput ==
    /\ \A k \in 1..Len(limited_data) : Occurs(InputFiles, limited_data[k])
    /\ \A j, k \in 1..Len(limited_data) : j # k => limited_data[j] # limited_data[k]

NonIncreasing(key) ==
    \A k \in 1..(Len(limited_data) - 1) :
        GreaterEq(limited_data[k][key], limited_data[k + 1][key])

\* records with equal keys keep the order the server gave them
TiesInServerOrder(key) ==
    \A j, k \in 1..Len(limited_data) :
        (j < k /\ Compare(limited_data[j][key], limited_data[k][key]) = 0)
            => Position(InputFiles, limited_data[j]) < Position(InputFiles, limited_data[k])

\* no record left out ranks before a rendered one
LeftOutRankLower(key) ==
    \A x \in { InputFiles[k] : k \in 1..Len(InputFiles) } :
        ~Occurs(limited_data, x) =>
            \A k \in 1..Len(limited_data) :
                \/ Less(x[key], limited_data[k][key])
                \/ /\ Compare(x[key], limited_data[k][key]) = 0
                   /\ Position(InputFiles, limited_data[k]) < Position(InputFiles, x)

(***************************************************************************)
(* Properties.                                                             *)
(***************************************************************************)

\* C1: an invocation issues at most one HTTP request, notify at most two: a
\* GET, then a PUT that is issued only once the GET has returned 200.  A
\* request goes out only when every earlier one has been answered, and no
\* request (method and URL) is issued a second time, whatever the status.
C1_AtMostOneRequestNoRetry ==
    /\ Len(requests) <= (IF args.cmd = "notify" THEN 2 ELSE 1)
    /\ Len(requests) <= Len(responses) + 1
    /\ Len(requests) = 2 =>
         /\ requests[1].method = "GET"
         /\ requests[2].method = "PUT"
         /\ responses[1].status_code = 200
    /\ \A j, k \in 1..Len(requests) :
         j < k => ~(requests[j].method = requests[k].method
                    /\ requests[j].url = requests[k].url)

\* C1 happens: a notify whose PUT failed with a server error has ended, two
\* requests out
C1_Witness ==
    /\ args.cmd = "notify"
    /\ pc = "exit"
    /\ Len(requests) = 2
    /\ Len(responses) = 2
    /\ responses[2].status_code = 500

\* C2: whatever the command, -t together with -s ends the invocation with
\* the usage error as its only output, no request issued and no handler
\* called.
C2_SortConflictIsUsageError ==
    (args.t /\ args.s /\ pc # "main") =>
        /\ pc = "exit"
        /\ stdout = <<[line |-> "usage_error"]>>
        /\ requests = <<>>
        /\ called = <<>>

\* C2 happens: notify -t -s with a malformed -l has ended on the usage error
C2_Witness ==
    /\ args.cmd = "notify"
    /\ args.t /\ args.s
    /\ args.l = Text(<<"a", "b", "c">>)
    /\ pc = "exit"
    /\ stdout = <<[line |-> "usage_error"]>>

\* C3: for a user-scoped command, a 404 response to any request the command
\* issues produces the "not initialised" message and nothing else, and no
\* further request is issued.
C3_NotFoundIsNotInitialised ==
    \A k \in 1..Len(responses) :
        (args.cmd \in UserScoped /\ responses[k].status_code = 404) =>
            /\ stdout = <<user_not_initialized_message(env.USER)>>
            /\ Len(requests) = k

\* C4: for every command, a response whose status is neither 200 nor 404 is
\* reported: the error string of a JSON body is printed, the status code is
\* printed when the body is no JSON, in every case an error line is printed,
\* and no success output is printed.
C4_OtherStatusIsReported ==
    \A k \in 1..Len(responses) :
        LET r == responses[k]
        IN r.status_code \notin {200, 404} =>
            /\ (r.json_ok /\ r.data.jtype = "object" /\ r.data.has_error
                    /\ r.data.error_is_str) =>
                 \E j \in 1..Len(stdout) :
                     stdout[j].line = "error" /\ stdout[j].error = r.data.error
            /\ ~r.json_ok =>
                 \E j \in 1..Len(stdout) :
                     stdout[j].line = "error_status"
                         /\ stdout[j].status_code = r.status_code
            /\ Printed(ErrorLines)
            /\ ~Printed(SuccessLines)

\* C5: whatever the command, the flags and the responses of the server, the
\* invocation ends normally with exit status 0, never in an exception
\* nothing catches.
C5_AlwaysExitsZero ==
    (Ended /\ fault # "ConnectionError") =>
        pc = "exit" /\ exit_status = 0 /\ fault = "none"

\* C6: in a notify whose GET returned 200 with notify = v, the PUT carries
\* the name of the invoking user and notify = NOT v; if the PUT returns 200
\* the state printed is "on" exactly when NOT v holds, whatever the PUT
\* response carries.
C6_NotifySendsNegationPrintsSent ==
    (args.cmd = "notify" /\ Len(responses) >= 1 /\ responses[1].status_code = 200) =>
        LET v == responses[1].data.notify
        IN /\ Len(requests) = 2
           /\ requests[2].method = "PUT"
           /\ requests[2].data = [name |-> env.USER, notify |-> ~v]
           /\ (Len(responses) = 2 /\ responses[2].status_code = 200) =>
                stdout = <<[line |-> "notify_updated",
                            state |-> IF v THEN "off" ELSE "on"]>>

\* C6 happens: notifications were off, the PUT returned 200 with a record
\* that still says off, and "on" was printed
C6_Witness ==
    /\ args.cmd = "notify"
    /\ Len(responses) = 2
    /\ responses[1].status_code = 200 /\ ~responses[1].data.notify
    /\ responses[2].status_code = 200 /\ ~responses[2].data.notify
    /\ stdout = <<[line |-> "notify_updated", state |-> "on"]>>

\* C7: once do_init has sent its request, the invocation has issued exactly
\* one request, a POST to the user endpoint, whose body holds name, the
\* invoking user, and holds email exactly when --email gave a non-empty
\* address.
C7_InitPostBody ==
    (args.cmd = "init" /\ called # <<>> /\ pc # "init") =>
        /\ Len(requests) = 1
        /\ requests[1].method = "POST"
        /\ requests[1].url = <<XFC_API_URL, "user">>
        /\ requests[1].data.name = env.USER
        /\ IF args.email # ""
           THEN /\ DOMAIN requests[1].data = {"name", "email"}
                /\ requests[1].data.email = args.email
           ELSE DOMAIN requests[1].data = {"name"}

\* C7 happens: init --email a@b.org has been answered
C7_Witness ==
    /\ args.cmd = "init"
    /\ args.email = "a@b.org"
    /\ pc = "exit"
    /\ Len(requests) = 1
    /\ "email" \in DOMAIN requests[1].data

\* C8: rendering a file list with -t and a limit k > 0 renders min(k, length)
\* different records of the list, in non-increasing quota_used order, records
\* of equal quota_used in the order the server gave them, and no record left
\* out ranks before a rendered one.
C8_TopKByQuotaUsedStable ==
    (PrintedFiles /\ locals.sort_tq /\ locals.list_limit > 0) =>
        /\ Len(limited_data) = Min(locals.list_limit, Len(InputFiles))
        /\ DrawnFromInput
        /\ NonIncreasing("quota_used")
        /\ TiesInServerOrder("quota_used")
        /\ LeftOutRankLower("quota_used")
        /\ RendersLimitedData

\* C8 happens: three files, limit 2, the two rendered tie on quota_used and
\* the server's first file is left out
C8_Witness ==
    /\ PrintedFiles
    /\ locals.sort_tq
    /\ locals.list_limit = 2
    /\ Len(InputFiles) = 3
    /\ Len(limited_data) = 2
    /\ limited_data[1].quota_used = limited_data[2].quota_used
    /\ ~Occurs(limited_data, InputFiles[1])

\* C9: rendering a file list with -s and without -t renders sizes in
\* non-increasing order; the rendered records are different records of the
\* input, and all of them when -l does not truncate.
C9_SizeNonIncreasing ==
    (PrintedFiles /\ locals.sort_hq /\ ~locals.sort_tq) =>
        /\ NonIncreasing("size")
        /\ DrawnFromInput
        /\ locals.list_limit <= 0 => Len(limited_data) = Len(InputFiles)
        /\ RendersLimitedData

\* C9 happens: three files the server sent with a smaller one first, -s, no
\* truncation
C9_Witness ==
    /\ PrintedFiles
    /\ locals.sort_hq /\ ~locals.sort_tq
    /\ locals.list_limit <= 0
    /\ Len(InputFiles) = 3
    /\ Less(InputFiles[1].size, InputFiles[2].size)
    /\ Len(limited_data) = 3

\* C10: print_file_list sorts by quota_used when sort_tq is set, whatever
\* sort_hq, by size when only sort_hq is set, and keeps the server's order
\* otherwise; it truncates after sorting and only for a limit > 0: it
\* renders min(limit, length) records when limit > 0 and all of them when
\* the limit is 0, unset or negative.
C10_SortPrecedenceThenLimit ==
    PrintedFiles =>
        /\ Len(limited_data) = IF locals.list_limit > 0
                               THEN Min(locals.list_limit, Len(InputFiles))
                               ELSE Len(InputFiles)
        /\ DrawnFromInput
        /\ locals.sort_tq =>
             /\ NonIncreasing("quota_used")
             /\ TiesInServerOrder("quota_used")
             /\ LeftOutRankLower("quota_used")
        /\ (~locals.sort_tq /\ locals.sort_hq) =>
             /\ NonIncreasing("size")
             /\ TiesInServerOrder("size")
             /\ LeftOutRankLower("size")
        /\ (~locals.sort_tq /\ ~locals.sort_hq) =>
             limited_data = SubSeq(InputFiles, 1, Len(limited_data))
        /\ RendersLimitedData

\* C10 happens: both flags set, limit 1, and the record rendered is the one
\* with the most quota_used although another one is larger
C10_Witness ==
    /\ PrintedFiles
    /\ locals.sort_tq /\ locals.sort_hq
    /\ locals.list_limit = 1
    /\ Len(InputFiles) = 3
    /\ Len(limited_data) = 1
    /\ \E k \in 1..3 : Less(limited_data[1].size, InputFiles[k].size)

\* the URL carries the query parameter match=<m>
HasMatchParameter(url, m) ==
    \E k \in 1..(Len(url) - 1) : url[k] = "&match=" /\ url[k + 1] = m

\* C11: for list, schedule and predict alike, a -m value is sent as the
\* match query parameter of the command's GET request, and the client
\* filters nothing itself: every record of the response is rendered (up to
\* the -l limit), whether or not its path holds the substring.
C11_MatchSentForListScheduleAndPredict ==
    (args.cmd \in ListCommands /\ args.m # "" /\ Len(requests) >= 1) =>
        /\ requests[1].method = "GET"
        /\ HasMatchParameter(requests[1].url, args.m)
        /\ PrintedFiles =>
             /\ Len(limited_data) = IF locals.list_limit > 0
                                    THEN Min(locals.list_limit, Len(InputFiles))
                                    ELSE Len(InputFiles)
             /\ DrawnFromInput

\* the units of the size rendering, smallest first
UnitNames == <<"bytes", "kB", "MB", "GB", "TB", "PB", "EB">>

\* floor(log_1024(n)) for n >= 1: one less than the number of base-1024 digits
FloorLog1024(num) == Len(num.mag) - 1

\* C12: sizeof_fmt renders 0 as "0 bytes" and 1 as "1 byte"; for n > 1 the
\* unit is the one of index e = min(floor(log_1024(n)), 6), the value shown is
\* n / 1024^e with no decimals when e is 0 or 1 and with one decimal when
\* e >= 2; every exact power 1024^k, 1 <= k <= 6, is shown as 1 of unit k.
C12_UnitIsFloorOfLog ==
    (pc = "exit" /\ called = <<"sizeof_fmt">>) =>
        LET num == locals.num
            out == stdout[1].text
        IN /\ num = Zero =>
                out.whole = 0 /\ out.decimals = 0 /\ out.unit = "bytes" /\ out.pad = 0
           /\ num = One =>
                out.whole = 1 /\ out.decimals = 0 /\ out.unit = "byte" /\ out.pad = 0
           /\ Compare(num, One) > 0 =>
                LET e == Min(FloorLog1024(num), 6)
                    decimals == IF e <= 1 THEN 0 ELSE 1
                    shown == RoundFixed(num.mag, e, decimals)
                IN /\ out.unit = UnitNames[e + 1]
                   /\ out.decimals = decimals
                   /\ out.whole = shown.whole
                   /\ out.tenth = shown.tenth
           /\ \A k \in 1..6 :
                num = Pow1024(k) =>
                    out.unit = UnitNames[k + 1] /\ out.whole = 1 /\ out.tenth = 0

\* the colour named for a size: green from 1 MiB, yellow from 1 GiB, red from
\* 1 TiB, none below 1 MiB
ColourOfSize(size) ==
    IF Less(size, Pow1024(2)) THEN ""
    ELSE IF Less(size, Pow1024(3)) THEN "GREEN"
    ELSE IF Less(size, Pow1024(4)) THEN "YELLOW"
    ELSE "RED"

\* a small number written with one decimal and nothing else, as in "3.0"
OneDecimal(num) ==
    [pad |-> 0, whole |-> HighValue(num.mag, 0), decimals |-> 1, tenth |-> 0,
     unit |-> ""]

\* the lines list -i without -f writes, but for the (TQ) annotation
InfoLinesButTq ==
    /\ Len(FileLinesWritten) = Len(limited_data)
    /\ \A k \in 1..Len(limited_data) :
         LET d == limited_data[k]
             w == FileLinesWritten[k]
         IN /\ w.info
            /\ w.colour = ColourOfSize(d.size)
            /\ w.size = sizeof_fmt(d.size)
            /\ w.path = <<d.path>>

\* C13 as stated: list -i without -f renders each record with the colour of
\* its size, the temporal quota used as "(TQ)", the value with one decimal
\* and "d " (3 as "(TQ)3.0d "), and the relative path.
C13_TqShownWithOneDecimal ==
    (args.cmd = "list" /\ PrintedFiles /\ locals.info /\ ~locals.full_path) =>
        /\ InfoLinesButTq
        /\ \A k \in 1..Len(limited_data) :
             FileLinesWritten[k].tq = OneDecimal(limited_data[k].quota_used)

\* C13, amended: list -i without -f renders each record with the colour of
\* its size, the temporal quota used as "(TQ)", the value as sizeof_fmt
\* renders it (no decimals and the unit "bytes" below 1024: 3 is shown as
\* "    3 bytes") and "d ", and the relative path.
C13_TqShownBySizeofFmt ==
    (args.cmd = "list" /\ PrintedFiles /\ locals.info /\ ~locals.full_path) =>
        /\ InfoLinesButTq
        /\ \A k \in 1..Len(limited_data) :
             LET d == limited_data[k]
                 w == FileLinesWritten[k]
             IN /\ w.tq = sizeof_fmt(d.quota_used)
                /\ d.quota_used = Num(<<3>>) =>
                     w.tq = [pad |-> 4, whole |-> 3, decimals |-> 0, tenth |-> 0,
                             unit |-> "bytes"]

\* C13 happens: list -i has rendered the 2 GiB file a.nc, quota_used 3, in
\* yellow with its relative path, and the 1 MiB file b.nc in green
C13_Witness ==
    /\ args.cmd = "list" /\ pc = "exit"
    /\ locals.info /\ ~locals.full_path
    /\ Len(FileLinesWritten) = 2
    /\ limited_data[1].size = Num(<<0, 0, 0, 2>>)
    /\ limited_data[1].quota_used = Num(<<3>>)
    /\ FileLinesWritten[1].colour = "YELLOW"
    /\ FileLinesWritten[1].tq.unit = "bytes"
    /\ FileLinesWritten[1].path = <<"a.nc">>
    /\ limited_data[2].size = Pow1024(2)
    /\ FileLinesWritten[2].colour = "GREEN"

\* red when less is allocated than used, green otherwise
ColourOfRemaining(allocated, used) ==
    IF Compare(allocated, used) < 0 THEN "RED" ELSE "GREEN"

\* C14: quota with a 200 response writes one block whose temporal quota
\* Remaining line is red exactly when quota_size - quota_used < 0 and green
\* otherwise, and whose hard quota Remaining line is red exactly when
\* hard_limit_size - total_used < 0 and green otherwise, each whatever the
\* other; nothing remaining is green.
C14_RemainingColours ==
    (args.cmd = "quota" /\ Len(responses) = 1 /\ responses[1].status_code = 200) =>
        LET data == responses[1].data
        IN /\ Len(stdout) = 1
           /\ stdout[1].line = "quota"
           /\ stdout[1].tq_colour = ColourOfRemaining(data.quota_size, data.quota_used)
           /\ stdout[1].hq_colour
                = ColourOfRemaining(data.hard_limit_size, data.total_used)
           /\ data.quota_size = data.quota_used => stdout[1].tq_colour = "GREEN"
           /\ data.hard_limit_size = data.total_used => stdout[1].hq_colour = "GREEN"

\* C14 happens: the temporal quota is used up exactly and shown green, the
\* hard quota is exceeded and shown red
C14_Witness ==
    /\ args.cmd = "quota" /\ pc = "exit"
    /\ Len(responses) = 1 /\ responses[1].status_code = 200
    /\ responses[1].data.quota_size = responses[1].data.quota_used
    /\ Less(responses[1].data.hard_limit_size, responses[1].data.total_used)
    /\ stdout[1].tq_colour = "GREEN"
    /\ stdout[1].hq_colour = "RED"

\* C15: schedule with a 200 response writes exactly one of two outputs,
\* decided by the first element of the response array alone: the "No files
\* scheduled for deletion" message and no file line when its files are
\* empty, else the header with its deletion time followed by the list of its
\* files; later elements of the array change nothing.
C15_ScheduleFirstElementDecides ==
    (args.cmd = "schedule" /\ Len(responses) = 1 /\ responses[1].status_code = 200) =>
        LET array == responses[1].data
        IN \/ /\ array # <<>>
              /\ array[1].files = <<>>
              /\ stdout = <<[line |-> "no_files_scheduled"]>>
           \/ /\ array # <<>>
              /\ array[1].files # <<>>
              /\ stdout = <<[line |-> "scheduled_header",
                             date |-> format_date(array[1].time_delete)]>>
                          \o print_file_list(array[1].files, locals.full_path,
                                             locals.info, locals.sort_tq,
                                             locals.sort_hq, locals.list_limit).lines

\* C16: in a notify whose GET returned 200 and whose PUT returned another
\* status, nothing at all is written (no success line, no "not initialised"
\* message, no error line), no further request is issued, and the invocation
\* ends normally.
C16_FailedPutIsSilent ==
    (/\ args.cmd = "notify"
     /\ Len(responses) = 2
     /\ responses[1].status_code = 200
     /\ responses[2].status_code # 200) =>
        /\ stdout = <<>>
        /\ Len(requests) = 2
        /\ pc = "exit"
        /\ exit_status = 0

\* C16 happens: the PUT was answered 404 with a JSON error body, and the
\* invocation has ended without a line written
C16_Witness ==
    /\ args.cmd = "notify"
    /\ pc = "exit"
    /\ Len(responses) = 2
    /\ responses[1].status_code = 200
    /\ responses[2].status_code = 404
    /\ responses[2].json_ok /\ responses[2].data.has_error
    /\ stdout = <<>>

\* every invocation of the session, the running one first
Invocations == <<Running>> \o suspended

\* info, path, quota, list, schedule, predict, and email without an address
ReadOnlyInvocation(a) ==
    \/ a.cmd \in {"info", "path", "quota", "list", "schedule", "predict"}
    \/ a.cmd = "email" /\ a.email = ""

\* the invocation has ended normally, each of its requests answered 200
EndedAllOK(inv) ==
    /\ inv.pc = "exit"
    /\ Len(inv.responses) = Len(inv.requests)
    /\ \A j \in 1..Len(inv.responses) : inv.responses[j].status_code = 200

\* C17: info, path, quota, list, schedule, predict and email without an
\* address issue GET requests only, and as long as only such commands have
\* been invoked, in any number, order and interleaving, the server's user
\* record and file records are what they were at the start: only init, email
\* with an address and notify change them.
C17_ReadOnlyCommandsLeaveServer ==
    /\ \A k \in 1..Len(Invocations) :
         ReadOnlyInvocation(Invocations[k].args) =>
             \A j \in 1..Len(Invocations[k].requests) :
                 Invocations[k].requests[j].method = "GET"
    /\ (\A k \in 1..Len(Invocations) : ReadOnlyInvocation(Invocations[k].args)) =>
           server = server_start

\* C17 happens: email without an address and list have both run to their
\* end with 200 responses, and the server holds what it held
C17_Witness ==
    /\ Len(Invocations) = 2
    /\ \E j, k \in 1..2 : /\ Invocations[j].args.cmd = "email"
                          /\ Invocations[j].args.email = ""
                          /\ Invocations[k].args.cmd = "list"
    /\ \A k \in 1..2 : EndedAllOK(Invocations[k]) /\ Len(Invocations[k].requests) = 1
    /\ server = server_start

\* C18: once a set of notify invocations of the same user has ended, the
\* GET and the PUT of each answered 200, the server's notify flag differs
\* from its value at the start exactly when the number of invocations is
\* odd, however the invocations interleaved.
C18_NotifyIsAToggle ==
    (\A k \in 1..Len(Invocations) :
        /\ Invocations[k].args.cmd = "notify"
        /\ EndedAllOK(Invocations[k])
        /\ Len(Invocations[k].requests) = 2) =>
            ((server.user.notify # server_start.user.notify)
                <=> (Len(Invocations) % 2 = 1))

====
